---- MODULE Spec2Model ----
(***************************************************************************)
(* queuectl: the jobs table (db.py), the store operations (job_store.py),  *)
(* the worker loop (worker.py) and the operator commands (cli.py).         *)
(*                                                                         *)
(* Every store operation opens its own sqlite3 connection.  The sqlite3    *)
(* module (default isolation_level) opens a transaction only in front of   *)
(* INSERT/UPDATE/DELETE, so a SELECT and the UPDATE that follows it on the *)
(* same connection are two separate atomic steps on the database file.     *)
(* Timestamps are whole seconds on the clock `now`; isoformat() strings of *)
(* utcnow() compare in the order of the instants they denote.  The audit   *)
(* columns created_at and updated_at are written but never read by any     *)
(* statement and are not carried.                                          *)
(***************************************************************************)
EXTENDS Integers, Sequences, FiniteSets, TLC

\* ------------------------------------------------------------------ bounds
MaxJobs == 2          \* rows the table may hold
MaxTime == 1          \* last value of the clock
MaxMaxAttempts == 3   \* largest --max-attempts an operator passes
MaxBaseDelay == 1     \* largest --base-delay a worker is started with

Workers == {"w1", "w2"}       \* worker processes
Operators == {"op1", "op2"}   \* concurrent `queuectl dlq retry` commands

\* the handler-call count is kept up to this value
MaxRuns == MaxMaxAttempts + 2

\* ------------------------------------------------------------- data values
NULL == "NULL"
NoRow == [id |-> 0]

JobTypes == {"print_message", "unknown_type"}

\* payload documents handed to enqueue_job
DocMsg == [kind |-> "dict", fail |-> FALSE]
DocFail == [kind |-> "dict", fail |-> TRUE]
JSONDecodeError == [kind |-> "JSONDecodeError", fail |-> FALSE]
Payloads == {DocMsg, DocFail}

json_dumps(doc) ==
    IF doc = DocMsg THEN "{\"msg\": \"hi\"}"
    ELSE IF doc = DocFail THEN "{\"fail\": true}"
    ELSE "null"

json_loads(text) ==
    IF text = "{\"msg\": \"hi\"}" THEN DocMsg
    ELSE IF text = "{\"fail\": true}" THEN DocFail
    ELSE JSONDecodeError

\* handlers.HANDLERS: the registered job types
HANDLERS == {"print_message"}

\* print_message_handler: "ok" or the text of the exception it raises
print_message_handler(payload) ==
    IF payload.fail
    THEN "JobExecutionError: Simulated failure in print_message_handler"
    ELSE "ok"

RECURSIVE Pow2(_)
Pow2(n) == IF n <= 0 THEN 1 ELSE 2 * Pow2(n - 1)

VARIABLES
    jobs,        \* the jobs table: row i has id i
    now,         \* the clock read by datetime.utcnow()
    base_delay,  \* base_delay[w]: the --base-delay worker w runs with
    wpc,         \* wpc[w]: position of worker w in run_worker
    wjob,        \* wjob[w]: the row get_next_pending_job fetched for w
    wres,        \* wres[w]: outcome of the handler call of w
    opc,         \* opc[o]: position of operator o in retry_dlq_job
    ojob,        \* ojob[o]: the job id operator o passed
    runs         \* runs[i]: handler calls for job i since its enqueue or
                 \* its latest retry_dlq_job reset (history, not program state)

vars == <<jobs, now, base_delay, wpc, wjob, wres, opc, ojob, runs>>

Ids == 1..Len(jobs)

\* ---------------------------------------------------------------- db.init_db
\* the empty table, with the workers ws started and the operators os at
\* their terminals; the other workers were never started ("stopped") and
\* the other operators never run a command ("off")
InitWith(ws, os) ==
    /\ jobs = <<>>
    /\ now = 0
    /\ base_delay \in [Workers -> 1..MaxBaseDelay]
    /\ wpc = [w \in Workers |-> IF w \in ws THEN "claim" ELSE "stopped"]
    /\ wjob = [w \in Workers |-> NoRow]
    /\ wres = [w \in Workers |-> NULL]
    /\ opc = [o \in Operators |-> IF o \in os THEN "idle" ELSE "off"]
    /\ ojob = [o \in Operators |-> 0]
    /\ runs = <<>>

\* two workers, one operator
Init == InitWith(Workers, {"op1"})

\* time passes
Tick ==
    /\ now < MaxTime
    /\ now' = now + 1
    /\ UNCHANGED <<jobs, base_delay, wpc, wjob, wres, opc, ojob, runs>>

\* ------------------------------------------------------ job_store.enqueue_job
enqueue_job(job_type, payload, max_attempts) ==
    /\ Len(jobs) < MaxJobs
    /\ jobs' = Append(jobs,
            [id |-> Len(jobs) + 1,
             type |-> job_type,
             payload |-> json_dumps(payload),
             status |-> "pending",
             attempts |-> 0,
             max_attempts |-> max_attempts,
             available_at |-> now,
             last_error |-> NULL])
    /\ runs' = Append(runs, 0)
    /\ UNCHANGED <<now, base_delay, wpc, wjob, wres, opc, ojob>>

Enqueue ==
    \E t \in JobTypes, p \in Payloads, m \in 0..MaxMaxAttempts :
        enqueue_job(t, p, m)

\* --------------------------------------------- job_store.get_next_pending_job
\* SELECT ... WHERE status = 'pending' AND available_at <= ? ORDER BY id LIMIT 1
Ready == {i \in Ids : jobs[i].status = "pending" /\ jobs[i].available_at <= now}

SelectRow ==
    IF Ready = {} THEN NoRow
    ELSE jobs[CHOOSE i \in Ready : \A k \in Ready : i <= k]

\* the SELECT; with no row the call returns None and the worker sleeps
Select(w) ==
    /\ wpc[w] = "claim"
    /\ wjob' = [wjob EXCEPT ![w] = SelectRow]
    /\ wpc' = [wpc EXCEPT ![w] = IF SelectRow = NoRow THEN "sleep" ELSE "update"]
    /\ UNCHANGED <<jobs, now, base_delay, wres, opc, ojob, runs>>

\* UPDATE jobs SET status = 'running' WHERE id = ?; returns dict(row)
MarkRunning(w) ==
    /\ wpc[w] = "update"
    /\ jobs' = [jobs EXCEPT ![wjob[w].id].status = "running"]
    /\ wpc' = [wpc EXCEPT ![w] = "route"]
    /\ UNCHANGED <<now, base_delay, wjob, wres, opc, ojob, runs>>

\* time.sleep(poll_interval); continue
Sleep(w) ==
    /\ wpc[w] = "sleep"
    /\ wpc' = [wpc EXCEPT ![w] = "claim"]
    /\ UNCHANGED <<jobs, now, base_delay, wjob, wres, opc, ojob, runs>>

\* ------------------------------------------------- job_store.move_job_to_dlq
\* variant: the routing error is counted as an attempt
move_job_to_dlq_counted(job_id, error_message) ==
    [jobs EXCEPT ![job_id].status = "dlq",
                 ![job_id].attempts = @ + 1,
                 ![job_id].last_error = error_message]

move_job_to_dlq(job_id, error_message) ==
    [jobs EXCEPT ![job_id].status = "dlq",
                 ![job_id].last_error = error_message]

\* ---------------------------------------------- job_store.mark_job_completed
\* variant: the UPDATE has no WHERE clause
mark_job_completed_all(job_id) ==
    [i \in 1..Len(jobs) |-> [jobs[i] EXCEPT !.status = "completed"]]

mark_job_completed(job_id) ==
    [jobs EXCEPT ![job_id].status = "completed"]

\* ---------------------------------------------- job_store.handle_job_failure
new_attempts(job) == job.attempts + 1

\* variant: the delay is not doubled
delay_seconds_flat(job, bd) == bd

delay_seconds(job, bd) == bd * Pow2(new_attempts(job) - 1)

\* variant: the DLQ test is off by one
handle_job_failure_late(job, error_message, bd) ==
    IF new_attempts(job) > job.max_attempts
    THEN [jobs EXCEPT ![job.id].status = "dlq",
                      ![job.id].attempts = new_attempts(job),
                      ![job.id].last_error = error_message]
    ELSE [jobs EXCEPT ![job.id].status = "pending",
                      ![job.id].attempts = new_attempts(job),
                      ![job.id].available_at = now + delay_seconds(job, bd),
                      ![job.id].last_error = error_message]

handle_job_failure(job, error_message, bd) ==
    IF new_attempts(job) >= job.max_attempts
    THEN [jobs EXCEPT ![job.id].status = "dlq",
                      ![job.id].attempts = new_attempts(job),
                      ![job.id].last_error = error_message]
    ELSE [jobs EXCEPT ![job.id].status = "pending",
                      ![job.id].attempts = new_attempts(job),
                      ![job.id].available_at = now + delay_seconds(job, bd),
                      ![job.id].last_error = error_message]

\* ------------------------------------------------------- worker.run_worker
\* decode the payload and look the handler up; a routing error sends the
\* job to the DLQ and the loop continues
Route(w) ==
    /\ wpc[w] = "route"
    /\ IF json_loads(wjob[w].payload) = JSONDecodeError
       THEN /\ jobs' = move_job_to_dlq(wjob[w].id, "Invalid JSON payload stored")
            /\ wpc' = [wpc EXCEPT ![w] = "claim"]
            /\ wjob' = [wjob EXCEPT ![w] = NoRow]
       ELSE IF wjob[w].type \notin HANDLERS
       THEN /\ jobs' = move_job_to_dlq(wjob[w].id, "Unknown job type: " \o wjob[w].type)
            /\ wpc' = [wpc EXCEPT ![w] = "claim"]
            /\ wjob' = [wjob EXCEPT ![w] = NoRow]
       ELSE /\ jobs' = jobs
            /\ wpc' = [wpc EXCEPT ![w] = "exec"]
            /\ wjob' = wjob
    /\ UNCHANGED <<now, base_delay, wres, opc, ojob, runs>>

\* handler(payload) runs and returns or raises
Execute(w) ==
    /\ wpc[w] = "exec"
    /\ wres' = [wres EXCEPT ![w] = print_message_handler(json_loads(wjob[w].payload))]
    /\ wpc' = [wpc EXCEPT ![w] = "persist"]
    /\ runs' = [runs EXCEPT ![wjob[w].id] = IF @ < MaxRuns THEN @ + 1 ELSE @]
    /\ UNCHANGED <<jobs, now, base_delay, wjob, opc, ojob>>

\* variant: the loop sleeps after it has processed a job
Persist_then_sleep(w) ==
    /\ wpc[w] = "persist"
    /\ jobs' = IF wres[w] = "ok"
               THEN mark_job_completed(wjob[w].id)
               ELSE handle_job_failure(wjob[w], wres[w], base_delay[w])
    /\ wpc' = [wpc EXCEPT ![w] = "sleep"]
    /\ wjob' = [wjob EXCEPT ![w] = NoRow]
    /\ wres' = [wres EXCEPT ![w] = NULL]
    /\ UNCHANGED <<now, base_delay, opc, ojob, runs>>

\* except Exception: handle_job_failure(...)   else: mark_job_completed(...)
Persist(w) ==
    /\ wpc[w] = "persist"
    /\ jobs' = IF wres[w] = "ok"
               THEN mark_job_completed(wjob[w].id)
               ELSE handle_job_failure(wjob[w], wres[w], base_delay[w])
    /\ wpc' = [wpc EXCEPT ![w] = "claim"]
    /\ wjob' = [wjob EXCEPT ![w] = NoRow]
    /\ wres' = [wres EXCEPT ![w] = NULL]
    /\ UNCHANGED <<now, base_delay, opc, ojob, runs>>

\* ------------------------------------------------------------- cli.worker
\* Ctrl+C: KeyboardInterrupt is raised wherever run_worker is, propagates
\* out of the loop and is caught by the command, which returns; the
\* process and its locals are gone
Interrupt(w) ==
    /\ wpc[w] # "stopped"
    /\ wpc' = [wpc EXCEPT ![w] = "stopped"]
    /\ wjob' = [wjob EXCEPT ![w] = NoRow]
    /\ wres' = [wres EXCEPT ![w] = NULL]
    /\ UNCHANGED <<jobs, now, base_delay, opc, ojob, runs>>

\* ---------------------------------------------------- job_store.retry_dlq_job
\* job = get_job(job_id); raise ValueError unless it exists and is in the DLQ
RetryCheck(o) ==
    /\ opc[o] = "idle"
    /\ \E job_id \in 1..MaxJobs :
        IF job_id \in Ids /\ jobs[job_id].status = "dlq"
        THEN /\ ojob' = [ojob EXCEPT ![o] = job_id]
             /\ opc' = [opc EXCEPT ![o] = "update"]
        ELSE UNCHANGED <<opc, ojob>>         \* ValueError: the command exits
    /\ UNCHANGED <<jobs, now, base_delay, wpc, wjob, wres, runs>>

\* variant: the UPDATE leaves attempts as it is
RetryUpdate_keeps_attempts(o) ==
    /\ opc[o] = "update"
    /\ jobs' = [jobs EXCEPT ![ojob[o]].status = "pending",
                            ![ojob[o]].available_at = now,
                            ![ojob[o]].last_error = NULL]
    /\ opc' = [opc EXCEPT ![o] = "idle"]
    /\ ojob' = [ojob EXCEPT ![o] = 0]
    /\ runs' = [runs EXCEPT ![ojob[o]] = 0]
    /\ UNCHANGED <<now, base_delay, wpc, wjob, wres>>

\* UPDATE jobs SET status = 'pending', attempts = 0, available_at = now,
\* last_error = NULL WHERE id = ?
RetryUpdate(o) ==
    /\ opc[o] = "update"
    /\ jobs' = [jobs EXCEPT ![ojob[o]].status = "pending",
                            ![ojob[o]].attempts = 0,
                            ![ojob[o]].available_at = now,
                            ![ojob[o]].last_error = NULL]
    /\ opc' = [opc EXCEPT ![o] = "idle"]
    /\ ojob' = [ojob EXCEPT ![o] = 0]
    /\ runs' = [runs EXCEPT ![ojob[o]] = 0]
    /\ UNCHANGED <<now, base_delay, wpc, wjob, wres>>

WorkerStep(w) ==
    \/ Select(w)
    \/ MarkRunning(w)
    \/ Sleep(w)
    \/ Route(w)
    \/ Execute(w)
    \/ Persist(w)
    \/ Interrupt(w)

Next ==
    \/ Tick
    \/ Enqueue
    \/ \E w \in Workers : WorkerStep(w)
    \/ \E o \in Operators : RetryCheck(o) \/ RetryUpdate(o)

Spec == Init /\ [][Next]_vars

\* one worker, two operators retrying at the same time
InitRetry == InitWith({"w1"}, Operators)

SpecRetry == InitRetry /\ [][Next]_vars

\* one worker, no operator command
InitSingle == InitWith({"w1"}, {})

NextSingle ==
    \/ Tick
    \/ Enqueue
    \/ \E w \in Workers : WorkerStep(w)

SpecSingle == InitSingle /\ [][NextSingle]_vars

\* the worker that keeps running
KeptWorker == "w1"

\* time passes, and goes on passing while a pending job waits for its
\* available_at
TickLive ==
    /\ \/ now < MaxTime
       \/ \E i \in Ids : jobs[i].status = "pending" /\ jobs[i].available_at > now
    /\ now' = now + 1
    /\ UNCHANGED <<jobs, base_delay, wpc, wjob, wres, opc, ojob, runs>>

\* one iteration step of the loop of run_worker
LoopStep(w) ==
    \/ Select(w)
    \/ MarkRunning(w)
    \/ Sleep(w)
    \/ Route(w)
    \/ Execute(w)
    \/ Persist(w)

\* several workers and no operator command; every worker but one may be
\* stopped with Ctrl+C
InitLive == InitWith(Workers, {})

NextLive ==
    \/ TickLive
    \/ Enqueue
    \/ \E w \in Workers : LoopStep(w)
    \/ \E w \in Workers \ {KeptWorker} : Interrupt(w)

\* the clock advances, and every worker process that has not been stopped
\* goes on executing (handlers terminate, the sleep ends)
Fairness ==
    /\ WF_vars(TickLive)
    /\ \A w \in Workers : WF_vars(LoopStep(w))

SpecLive == InitLive /\ [][NextLive]_vars /\ Fairness

\* ====================================================================
\* Properties
\* ====================================================================

\* worker w has a job that get_next_pending_job returned to it
Holding(w) == wpc[w] \in {"route", "exec", "persist"}

\* C1: claiming is exclusive: no job is returned to two callers, so no two
\* workers hold the same job at the same time.
C1_ClaimExclusive ==
    \A w1, w2 \in Workers :
        (w1 # w2 /\ Holding(w1) /\ Holding(w2)) => wjob[w1].id # wjob[w2].id

\* C2: every job whose status is pending or running has
\* attempts < max_attempts.
C2_AttemptsBelowMax ==
    \A i \in Ids :
        jobs[i].status \in {"pending", "running"}
            => jobs[i].attempts < jobs[i].max_attempts

\* a step in which worker w persists the failure of its job
FailureStep(w) ==
    /\ wpc[w] = "persist"
    /\ wres[w] # "ok"
    /\ wpc'[w] = "claim"

\* C3: a failure sets the job to dlq if and only if the attempts value it
\* stores equals the job's max_attempts.
C3_DlqIffAttemptsEqualMax ==
    [][\A w \in Workers :
        FailureStep(w) =>
            LET j == wjob[w].id IN
            (jobs'[j].status = "dlq") <=> (jobs'[j].attempts = jobs'[j].max_attempts)
      ]_vars

\* C4: the stored attempts of a job never decreases, except in a
\* retry_dlq_job step, which sets it to 0.
C4_AttemptsMonotone ==
    [][\A i \in Ids :
        jobs'[i].attempts < jobs[i].attempts =>
            /\ jobs'[i].attempts = 0
            /\ \E o \in Operators : opc[o] = "update" /\ ojob[o] = i /\ opc'[o] = "idle"
      ]_vars

\* C5: completed is terminal: no step changes the status, attempts or
\* available_at of a job whose status is completed.
C5_CompletedTerminal ==
    [][\A i \in Ids :
        jobs[i].status = "completed" =>
            /\ jobs'[i].status = "completed"
            /\ jobs'[i].attempts = jobs[i].attempts
            /\ jobs'[i].available_at = jobs[i].available_at
      ]_vars

\* C6: dlq is terminal except for operator retry: the only step that
\* changes the status of a dlq job is the UPDATE of retry_dlq_job.
C6_DlqTerminalExceptRetry ==
    [][\A i \in Ids :
        (jobs[i].status = "dlq" /\ jobs'[i].status # "dlq") =>
            /\ jobs'[i].status = "pending"
            /\ \E o \in Operators : opc[o] = "update" /\ ojob[o] = i /\ opc'[o] = "idle"
      ]_vars

\* C7: every claim resolves: once the handler of a claimed job has
\* returned or raised, the worker leaves that job only by persisting
\* completed, rescheduled pending or dlq for it, and then goes on to its
\* next claim; the job is never left behind and the loop never ends there.
C7_EveryClaimResolves ==
    [][\A w \in Workers :
        (wpc[w] = "persist" /\ wpc'[w] # "persist") =>
            /\ wpc'[w] = "claim"
            /\ jobs'[wjob[w].id].status \in {"completed", "pending", "dlq"}
      ]_vars

\* C8: cancellation takes effect only between iterations: a worker never
\* stops while it holds a claimed job.
C8_NoCancellationMidJob ==
    [][\A w \in Workers :
        (wpc[w] # "stopped" /\ wpc'[w] = "stopped") => ~Holding(w)
      ]_vars

\* b doubled k times
RECURSIVE Doubled(_, _)
Doubled(b, k) == IF k = 0 THEN b ELSE Doubled(b + b, k - 1)

\* C9: a failure that reschedules a job stores attempts n = snapshot
\* attempts + 1 and available_at = now + base_delay * 2^(n-1).
C9_BackoffDoubles ==
    [][\A w \in Workers :
        (FailureStep(w) /\ jobs'[wjob[w].id].status = "pending") =>
            LET j == wjob[w].id
                n == wjob[w].attempts + 1
            IN  /\ jobs'[j].attempts = n
                /\ jobs'[j].available_at = now + Doubled(base_delay[w], n - 1)
      ]_vars

\* a job rescheduled by its second consecutive failure, still backing off
C9_Witness ==
    \E i \in Ids :
        /\ jobs[i].status = "pending"
        /\ jobs[i].attempts = 2
        /\ jobs[i].last_error # NULL
        /\ jobs[i].available_at > now

\* the stored payload does not decode, or no handler is registered
RoutingError(job) ==
    \/ job.payload \notin {json_dumps(p) : p \in Payloads}
    \/ job.type # "print_message"

\* C10: on a routing error the worker sets the job to dlq with attempts
\* unchanged and last_error set to the diagnostic, invokes no handler and
\* goes to the next claim without sleeping.
C10_RoutingErrorToDlq ==
    [][\A w \in Workers :
        (wpc[w] = "route" /\ RoutingError(wjob[w]) /\ wpc'[w] \notin {"route", "stopped"}) =>
            LET j == wjob[w].id IN
            /\ jobs'[j].status = "dlq"
            /\ jobs'[j].attempts = jobs[j].attempts
            /\ jobs'[j].last_error =
                 IF wjob[w].payload \notin {json_dumps(p) : p \in Payloads}
                 THEN "Invalid JSON payload stored"
                 ELSE "Unknown job type: " \o jobs[j].type
            /\ wpc'[w] = "claim"
            /\ wres'[w] = NULL
      ]_vars

\* a job sent to the DLQ on its first claim for its unknown type
C10_Witness ==
    \E i \in Ids :
        /\ jobs[i].status = "dlq"
        /\ jobs[i].attempts = 0
        /\ jobs[i].type = "unknown_type"
        /\ jobs[i].last_error = "Unknown job type: unknown_type"

\* a step in which operator o runs the UPDATE of retry_dlq_job
RetryStep(o) == opc[o] = "update" /\ opc'[o] = "idle"

\* C11: retry_dlq_job on a dlq job yields status pending, attempts 0,
\* last_error null and available_at <= now, leaves id, type, payload and
\* max_attempts as they were, and the job is among those the next
\* get_next_pending_job selects from.
C11_RetryResets ==
    [][\A o \in Operators :
        (RetryStep(o) /\ jobs[ojob[o]].status = "dlq") =>
            LET j == ojob[o] IN
            /\ jobs'[j].status = "pending"
            /\ jobs'[j].attempts = 0
            /\ jobs'[j].last_error = NULL
            /\ jobs'[j].available_at <= now'
            /\ jobs'[j].id = jobs[j].id
            /\ jobs'[j].type = jobs[j].type
            /\ jobs'[j].payload = jobs[j].payload
            /\ jobs'[j].max_attempts = jobs[j].max_attempts
            /\ j \in Ready'
      ]_vars

\* job 2 was enqueued at time 0, so job 1 was too; job 1 is pending with
\* attempts 0 and available_at 1: it was reset from the DLQ at time 1
C11_Witness ==
    /\ Len(jobs) = 2
    /\ jobs[2].available_at = 0
    /\ jobs[2].attempts = 0
    /\ jobs[1].status = "pending"
    /\ jobs[1].attempts = 0
    /\ jobs[1].last_error = NULL
    /\ jobs[1].available_at = 1

\* C12: retry_dlq_job on a job that is not in the DLQ, or on an unknown
\* id, is rejected and mutates nothing; the UPDATE of retry_dlq_job never
\* rewrites a job whose stored status is pending, running or completed.
C12_RetryOnlyRewritesDlq ==
    [][\A o \in Operators :
        /\ (opc[o] = "idle" /\ opc'[o] = "update") =>
               /\ ojob'[o] \in Ids
               /\ jobs[ojob'[o]].status = "dlq"
               /\ jobs' = jobs
        /\ RetryStep(o) => jobs[ojob[o]].status = "dlq"
      ]_vars

\* C13: get_next_pending_job selects the job with the smallest id among
\* those with status pending and available_at <= now, and none exactly when
\* there is no such job; the job it sets to running and returns is pending
\* and due at that moment, and what it returns is the row as it was stored
\* before the transition.
C13_ClaimsOldestReady ==
    [][\A w \in Workers :
        /\ (wpc[w] = "claim" /\ wpc'[w] \in {"update", "sleep"}) =>
               IF \E i \in Ids : jobs[i].status = "pending" /\ jobs[i].available_at <= now
               THEN /\ wpc'[w] = "update"
                    /\ wjob'[w].id \in Ids
                    /\ wjob'[w] = jobs[wjob'[w].id]
                    /\ wjob'[w].status = "pending"
                    /\ wjob'[w].available_at <= now
                    /\ \A k \in Ids :
                         (jobs[k].status = "pending" /\ jobs[k].available_at <= now)
                             => wjob'[w].id <= k
               ELSE /\ wpc'[w] = "sleep"
                    /\ wjob'[w] = NoRow
        /\ (wpc[w] = "update" /\ wpc'[w] = "route") =>
               LET j == wjob[w].id IN
               /\ jobs[j].status = "pending"
               /\ jobs[j].available_at <= now
               /\ wjob[w] = jobs[j]
               /\ jobs'[j].status = "running"
      ]_vars

\* job i is routed to print_message_handler with a payload that makes it
\* raise every time
AlwaysFails(i) ==
    /\ jobs[i].type = "print_message"
    /\ jobs[i].payload = "{\"fail\": true}"

\* C14: with a single worker, a job whose handler always fails and whose
\* max_attempts is k >= 1 is pending with attempts = i after its i-th
\* failure for i < k, is in dlq with attempts = k after its k-th failure,
\* has been executed exactly k times by then and is not claimed again.
C14_FailsExactlyKTimes ==
    \A i \in Ids :
        (AlwaysFails(i) /\ jobs[i].max_attempts >= 1) =>
            /\ jobs[i].status \in {"pending", "running", "dlq"}
            /\ jobs[i].status = "pending" =>
                   /\ jobs[i].attempts = runs[i]
                   /\ jobs[i].attempts < jobs[i].max_attempts
            /\ jobs[i].status = "running" =>
                   /\ runs[i] \in {jobs[i].attempts, jobs[i].attempts + 1}
                   /\ jobs[i].attempts < jobs[i].max_attempts
            /\ jobs[i].status = "dlq" =>
                   /\ jobs[i].attempts = jobs[i].max_attempts
                   /\ runs[i] = jobs[i].max_attempts

\* a job with max_attempts 2 that has failed twice
C14_Witness ==
    \E i \in Ids :
        /\ AlwaysFails(i)
        /\ jobs[i].max_attempts = 2
        /\ jobs[i].status = "dlq"
        /\ jobs[i].attempts = 2
        /\ runs[i] = 2

\* C15: attempts is changed only by a handler failure, which adds one, and
\* by retry_dlq_job, which sets it to 0; enqueue_job creates the job pending
\* with attempts 0, and the claim, mark_job_completed and move_job_to_dlq
\* leave attempts as it is.
C15_AttemptsFrame ==
    [][/\ \A i \in Ids :
            jobs'[i].attempts # jobs[i].attempts =>
                \/ \E w \in Workers :
                      /\ FailureStep(w)
                      /\ wjob[w].id = i
                      /\ jobs'[i].attempts = jobs[i].attempts + 1
                \/ \E o \in Operators :
                      /\ RetryStep(o)
                      /\ ojob[o] = i
                      /\ jobs'[i].attempts = 0
       /\ Len(jobs') > Len(jobs) =>
            /\ jobs'[Len(jobs')].status = "pending"
            /\ jobs'[Len(jobs')].attempts = 0
      ]_vars

\* tables t1 and t2 agree on the status, attempts and last_error of job j
SameOutcome(t1, t2, j) ==
    /\ t1[j].status = t2[j].status
    /\ t1[j].attempts = t2[j].attempts
    /\ t1[j].last_error = t2[j].last_error

\* the step changed no row other than that of job j
OnlyRow(j) ==
    /\ Len(jobs') = Len(jobs)
    /\ \A i \in Ids : i # j => jobs'[i] = jobs[i]

\* C16: each store update is idempotent and restricted to one row: run a
\* second time with the same arguments on the table the first run left,
\* mark_job_completed, move_job_to_dlq and handle_job_failure store the same
\* status, attempts and last_error, a second retry_dlq_job is rejected, and
\* no row other than the one named by id is changed.
C16_IdempotentSingleRow ==
    [][/\ \A w \in Workers :
            /\ (wpc[w] = "persist" /\ wres[w] = "ok" /\ wpc'[w] = "claim") =>
                   \A j \in {wjob[w].id} :
                       /\ SameOutcome((mark_job_completed(j))', jobs', j)
                       /\ OnlyRow(j)
            /\ FailureStep(w) =>
                   \A snap \in {wjob[w]}, e \in {wres[w]}, bd \in {base_delay[w]} :
                       /\ SameOutcome((handle_job_failure(snap, e, bd))', jobs', snap.id)
                       /\ OnlyRow(snap.id)
            /\ (wpc[w] = "route" /\ wpc'[w] = "claim") =>
                   \A j \in {wjob[w].id} : \A e \in {jobs'[j].last_error} :
                       /\ SameOutcome((move_job_to_dlq(j, e))', jobs', j)
                       /\ OnlyRow(j)
       /\ \A o \in Operators :
            RetryStep(o) =>
                \A j \in {ojob[o]} :
                    /\ jobs'[j].status # "dlq"
                    /\ OnlyRow(j)
      ]_vars

\* one job has been completed while another one is still pending
C16_Witness ==
    \E i, k \in Ids :
        /\ i # k
        /\ jobs[i].status = "completed"
        /\ jobs[k].status = "pending"

\* C17: while a worker holds a job (from its claim until it has persisted
\* the outcome) the stored status of that job is running.
C17_RunningWhileHeld ==
    \A w \in Workers :
        Holding(w) => jobs[wjob[w].id].status = "running"

\* C19: since its enqueue or its latest retry reset, the handler has been
\* invoked for a job at most max_attempts times.
C19_HandlerCallsBounded ==
    \A i \in Ids : runs[i] <= jobs[i].max_attempts

\* C19 restricted to jobs enqueued with max_attempts >= 1
C19_BoundedForPositiveLimit ==
    \A i \in Ids : jobs[i].max_attempts >= 1 => runs[i] <= jobs[i].max_attempts

\* C20: a worker sleeps only when get_next_pending_job returned none: a
\* worker that is not stopped goes to the sleep only from a claim attempt
\* that found no ready job, goes from a processed job (completed,
\* rescheduled or routed to dlq) straight to the next claim attempt, and
\* goes from the sleep to a claim attempt; the sleep writes nothing.
C20_SleepOnlyAfterEmptyClaim ==
    [][\A w \in Workers :
          (wpc'[w] # wpc[w] /\ wpc'[w] # "stopped") =>
              /\ wpc'[w] = "sleep" => (wpc[w] = "claim" /\ Ready = {})
              /\ wpc[w] = "claim" =>
                     wpc'[w] = (IF Ready = {} THEN "sleep" ELSE "update")
              /\ (Holding(w) /\ ~Holding(w)') => wpc'[w] = "claim"
              /\ wpc[w] = "sleep" => (wpc'[w] = "claim" /\ jobs' = jobs)
      ]_vars

\* a worker is in its sleep after an empty claim: every job has been processed
C20_Witness ==
    \E w \in Workers :
        /\ wpc[w] = "sleep"
        /\ Ids # {}
        /\ \A i \in Ids : jobs[i].status \in {"completed", "dlq"}

\* C18: with a worker that keeps running, time advancing, terminating
\* handlers and no retry command, every enqueued job eventually reaches
\* completed or dlq and stays there.
C18_EveryJobSettles ==
    \A i \in 1..MaxJobs :
        <>[](i \in Ids => jobs[i].status \in {"completed", "dlq"})

====
